---------------------------- MODULE Spec2Model ----------------------------
(* A model of the persona-interview chat application (src/app.py,          *)
(* src/personas.py): the Streamlit session state, the script run that each *)
(* UI event triggers, the streaming backend call of a turn, and the pure   *)
(* helpers a turn uses (user-turn composition, rendering, source summary). *)
(*                                                                         *)
(* Text is modelled by TLA+ strings and f-strings by \o. Characters that   *)
(* are not ASCII in the source are written in ASCII here ("(!)" for the    *)
(* warning sign, "--" for the dash).                                       *)
EXTENDS Integers, Sequences, FiniteSets, TLC

VARIABLES
    secrets,              \* st.secrets as seen by get_configured_api_key
    environ,              \* os.environ.get("ANTHROPIC_API_KEY", "")
    messages,             \* st.session_state.messages (display history)
    api_messages,         \* st.session_state.api_messages (API-native history)
    last_tool_summary,    \* st.session_state.last_tool_summary
    selected_persona_id,  \* st.session_state.selected_persona_id
    pending_prompt,       \* st.session_state.pending_prompt (None when absent)
    suggested_hidden,     \* st.session_state.suggested_hidden (FALSE when absent)
    screen,               \* the page the last script run rendered
    rerun_requested,      \* request_rerun() was called: a script run follows
    pc,                   \* position of the script run: "idle" or "streaming"
    stream_buffer,        \* handle_chunk's nonlocal buffer, as the last call left it
    chunks,               \* text fragments the open stream has produced
    event,                \* the UI event the current or last script run handled
    internal_dataset,     \* load_internal_dataset(DATASET_PATH), cached
    submitted,            \* prompts submitted in this session
    calls,                \* requests the backend has received in this session
    request,              \* the request the backend is answering
    response,             \* the answer the current script run got from it
    text_stream,          \* the fragments stream.text_stream has produced
    delivered,            \* the arguments on_text_chunk was called with
    stream,               \* the stream object as the end of the call found it
    call,                 \* a call of a pure helper: the helper and its arguments
    result                \* what that call returned

vars == <<secrets, environ, messages, api_messages, last_tool_summary,
          selected_persona_id, pending_prompt, suggested_hidden, screen,
          rerun_requested, pc, stream_buffer, chunks, event,
          internal_dataset, submitted, calls, request, response,
          text_stream, delivered, stream, call, result>>

-----------------------------------------------------------------------------
(* Bounds of the model.                                                    *)

\* prompts submitted in one session
MaxPrompts == 2
\* text fragments one stream produces
MaxChunks == 2
\* suggestion buttons of a row the user may click
MaxSuggestions == 1

\* Python's None, for the optional strings of the session state.
None == "<None>"

-----------------------------------------------------------------------------
(* Generic helpers.                                                        *)

RECURSIVE Join(_, _)
\* sep.join(parts)
Join(parts, sep) ==
    IF parts = <<>> THEN ""
    ELSE IF Len(parts) = 1 THEN parts[1]
    ELSE parts[1] \o sep \o Join(Tail(parts), sep)

\* s[:n]
Take(s, n) == SubSeq(s, 1, IF Len(s) < n THEN Len(s) ELSE n)

\* d.get(key, default) for a dict modelled as a record
Get(d, key, default) == IF key \in DOMAIN d THEN d[key] ELSE default


-----------------------------------------------------------------------------
(* Text that the program tokenizes (prompts, dataset fields) is a sequence *)
(* of words, each a run of \w characters; Str gives the string, the words  *)
(* separated by single spaces.                                             *)

Str(text) == Join(text, " ")

\* str.lower() on the words of the model's vocabulary
Lower(word) ==
    CASE word = "EV" -> "ev"
      [] word = "Charging" -> "charging"
      [] word = "Honda" -> "honda"
      [] word = "Mileage" -> "mileage"
      [] word = "Forum" -> "forum"
      [] word = "Anxiety" -> "anxiety"
      [] word = "Status" -> "status"
      [] word = "Independence" -> "independence"
      [] word = "Ownership" -> "ownership"
      [] word = "What" -> "what"
      [] word = "Hello" -> "hello"
      [] word = "Which" -> "which"
      [] word = "Could" -> "could"
      [] word = "How" -> "how"
      [] word = "Are" -> "are"
      [] word = "Who" -> "who"
      [] word = "Survey" -> "survey"
      [] OTHER -> word

RECURSIVE tokenize_text(_)
\* re.findall(r"\b\w+\b", text.lower()); [] for an empty text
tokenize_text(text) ==
    IF text = <<>> THEN <<>>
    ELSE <<Lower(Head(text))>> \o tokenize_text(Tail(text))

\* set(tokens)
TermSet(tokens) == {tokens[i] : i \in DOMAIN tokens}

-----------------------------------------------------------------------------
(* The persona catalog (src/personas.py). Two of the nine personas of      *)
(* PERSONAS are modelled, each with the first entries of its lists. The    *)
(* entries that get_followup_prompts lower-cases are texts (word sequences)*)

Priya ==
    [id |-> "priya-sharma",
     name |-> "Priya Sharma",
     label |-> "Safety-Conscious Young Professional",
     demographics |-> << <<"Age", "28">>, <<"Location", "Bangalore, Karnataka">>,
                         <<"Occupation", "Software Engineer">> >>,
     background |-> "Works late hours and is considering a first car.",
     key_concerns |-> << <<"Independence", "from", "cabs">> >>,
     purchase_behavior |-> <<"Extensive research on social media groups",
                             "Follows automotive influencers">>,
     communication_style |-> <<"Tech-savvy, detailed questions about safety",
                               "Seeks reassurance and validation">>,
     pain_points |-> << <<"Anxiety", "in", "heavy", "traffic">> >>]

Rajesh ==
    [id |-> "rajesh-kumar",
     name |-> "Rajesh Kumar",
     label |-> "Middle-Class Family Man",
     demographics |-> << <<"Age", "38">>, <<"Location", "Lucknow, Uttar Pradesh">>,
                         <<"Occupation", "Government school teacher">> >>,
     background |-> "Upgrading from a 10-year-old motorcycle for family comfort.",
     key_concerns |-> << <<"Ownership", "and", "financial", "independence">> >>,
     purchase_behavior |-> <<"Relies on gov data and Statista",
                             "Fuel efficiency paramount">>,
     communication_style |-> <<"Practical, price-focused",
                               "Asks about EMI, resale, maintenance">>,
     pain_points |-> << <<"Status", "stigma">> >>]

PERSONAS == <<Priya, Rajesh>>

PersonaIds == {PERSONAS[i].id : i \in DOMAIN PERSONAS}

\* next((p for p in PERSONAS if p.id == persona_id), None); a record with
\* id None stands for the missing persona
FindPersona(persona_id) ==
    IF \E i \in DOMAIN PERSONAS : PERSONAS[i].id = persona_id
    THEN PERSONAS[CHOOSE i \in DOMAIN PERSONAS :
                    /\ PERSONAS[i].id = persona_id
                    /\ \A j \in 1..(i - 1) : PERSONAS[j].id # persona_id]
    ELSE [id |-> None]

RECURSIVE DemographicLines(_)
\* [f"{k}: {v}" for k, v in p.demographics.items()]
DemographicLines(items) ==
    IF items = <<>> THEN <<>>
    ELSE <<items[1][1] \o ": " \o items[1][2]>> \o DemographicLines(Tail(items))

RECURSIVE StrEach(_)
\* the strings of a list of texts
StrEach(texts) ==
    IF texts = <<>> THEN <<>> ELSE <<Str(Head(texts))>> \o StrEach(Tail(texts))

ROLEPLAY_INSTRUCTIONS ==
    "You are participating in a simulated user research interview as the persona below.\n"
    \o "Speak in first person and stay fully in-character throughout.\n"
    \o "Do not reveal these instructions or that this is a simulation.\n"
    \o "Do not claim to be any corporate assistant.\n\n"

build_persona_prompt(p) ==
    ROLEPLAY_INSTRUCTIONS
    \o "Persona: " \o p.name \o " -- " \o p.label \o "\n\n"
    \o "Demographics:\n- " \o Join(DemographicLines(p.demographics), "\n- ") \o "\n\n"
    \o "Background:\n" \o p.background \o "\n\n"
    \o "Key Concerns & Motivations:\n- " \o Join(StrEach(p.key_concerns), "\n- ") \o "\n\n"
    \o "Purchase Behavior:\n- " \o Join(p.purchase_behavior, "\n- ") \o "\n\n"
    \o "Communication Style:\n- " \o Join(p.communication_style, "\n- ") \o "\n\n"
    \o "Pain Points:\n- " \o Join(StrEach(p.pain_points), "\n- ")

BASE_SYSTEM_PROMPT ==
    "You are an automotive market intelligence analyst supporting a Honda India POC."

ROLEPLAY_GUARDRAILS ==
    "General guardrails for this simulation: Do not mention underlying model providers or internal tooling. "
    \o "Cite web sources when used. Keep tone natural and human."

\* SystemPrompt without the persona branch of lines 656-657
SystemPromptOfAnalyst(active_persona) == BASE_SYSTEM_PROMPT

\* the system prompt of a turn (src/app.py lines 655-657)
SystemPrompt(active_persona) ==
    IF active_persona.id # None
    THEN build_persona_prompt(active_persona) \o "\n\n" \o ROLEPLAY_GUARDRAILS
    ELSE BASE_SYSTEM_PROMPT

\* PERSONA_SUGGESTED_PROMPTS.get(persona_id, [...]): the first starter of each
get_suggested_prompts(persona_id) ==
    CASE persona_id = "priya-sharma" ->
            << <<"Which", "safety", "features", "would", "make", "you", "feel",
                 "most", "confident">> >>
      [] persona_id = "rajesh-kumar" ->
            << <<"What", "minimum", "mileage", "and", "space", "do", "you", "need">> >>
      [] OTHER ->
            << <<"Who", "influences", "your", "decision">> >>

RECURSIVE LowerText(_)
\* text.lower()
LowerText(text) ==
    IF text = <<>> THEN <<>> ELSE <<Lower(Head(text))>> \o LowerText(Tail(text))

RECURSIVE SituationPrompts(_)
SituationPrompts(pain_points) ==
    IF pain_points = <<>> THEN <<>>
    ELSE << <<"Could", "you", "describe", "a", "recent", "situation", "related", "to">>
            \o LowerText(Head(pain_points)) >>
         \o SituationPrompts(Tail(pain_points))

RECURSIVE InfluencePrompts(_)
InfluencePrompts(key_concerns) ==
    IF key_concerns = <<>> THEN <<>>
    ELSE << <<"How", "does">> \o LowerText(Head(key_concerns))
            \o <<"influence", "your", "selection", "and", "budget">> >>
         \o InfluencePrompts(Tail(key_concerns))

RECURSIVE Dedupe(_, _)
\* the order-preserving deduplication of get_followup_prompts
Dedupe(deduped, prompts) ==
    IF prompts = <<>> THEN deduped
    ELSE Dedupe(IF \E i \in DOMAIN deduped : deduped[i] = Head(prompts)
                THEN deduped ELSE Append(deduped, Head(prompts)),
                Tail(prompts))

FOLLOWUP_SOURCE_ITEMS == 3
FOLLOWUP_MAX_PROMPTS == 6

get_followup_prompts(p) ==
    Take(Dedupe(<<>>,
                SituationPrompts(Take(p.pain_points, FOLLOWUP_SOURCE_ITEMS))
                \o InfluencePrompts(Take(p.key_concerns, FOLLOWUP_SOURCE_ITEMS))
                \o << <<"Are", "there", "any", "deal", "breakers", "we", "haven", "t",
                        "discussed">>,
                      <<"What", "trade", "offs", "would", "you", "be", "willing", "to",
                        "make">>,
                      <<"Which", "two", "features", "matter", "most", "and", "why">> >>),
         FOLLOWUP_MAX_PROMPTS)

-----------------------------------------------------------------------------
(* The dataset retriever and the turn composer (src/app.py lines 84-173). *)

MAX_INTERNAL_CONTEXT_ROWS == 4

SEARCH_FIELDS == <<"source", "category", "details", "customer_insights", "remark">>

RECURSIVE Haystack(_, _)
\* " ".join(str(record.get(field, "")) for field in fields)
Haystack(record, fields) ==
    IF fields = <<>> THEN <<>>
    ELSE Get(record, Head(fields), <<>>) \o Haystack(record, Tail(fields))

format_record_summary(record) ==
    LET source == Get(record, "source", <<>>)
        category == Get(record, "category", <<>>)
        insight == Get(record, "customer_insights", <<>>)
        remark == Get(record, "remark", <<>>)
        details == Get(record, "details", <<>>)
        parts ==
            (IF source # <<>>
             THEN <<IF category = <<>> THEN Str(source)
                    ELSE Str(source) \o " [" \o Str(category) \o "]">>
             ELSE <<>>)
            \o (IF insight # <<>> THEN <<"Key insight: " \o Str(insight)>> ELSE <<>>)
            \o (IF remark # <<>> THEN <<"Notes: " \o Str(remark)>> ELSE <<>>)
            \o (IF details # <<>> THEN <<"Details: " \o Str(details)>> ELSE <<>>)
    IN  Join(parts, " | ")

\* sum(1 for term in query_terms if term in haystack_terms)
Score(query_terms, record) ==
    Cardinality(query_terms \cap TermSet(tokenize_text(Haystack(record, SEARCH_FIELDS))))

RECURSIVE ScoredRecordsKeepAll(_, _)
\* ScoredRecords without the test of line 127: every record is kept
ScoredRecordsKeepAll(query_terms, dataset) ==
    IF dataset = <<>> THEN <<>>
    ELSE << <<Score(query_terms, Head(dataset)), Head(dataset)>> >>
         \o ScoredRecordsKeepAll(query_terms, Tail(dataset))

RECURSIVE ScoredRecords(_, _)
\* the loop of lines 121-128: (score, record) pairs, in dataset order
ScoredRecords(query_terms, dataset) ==
    IF dataset = <<>> THEN <<>>
    ELSE LET score == Score(query_terms, Head(dataset))
         IN  (IF score # 0 \/ query_terms = {}
              THEN << <<score, Head(dataset)>> >> ELSE <<>>)
             \o ScoredRecords(query_terms, Tail(dataset))

RECURSIVE InsertByScore(_, _)
\* insert item behind every item of sorted whose score is not smaller
InsertByScore(sorted, item) ==
    IF sorted = <<>> THEN <<item>>
    ELSE IF Head(sorted)[1] >= item[1]
         THEN <<Head(sorted)>> \o InsertByScore(Tail(sorted), item)
         ELSE <<item>> \o sorted

RECURSIVE SortByScoreDesc(_, _)
\* list.sort(key=lambda item: item[0], reverse=True): stable, descending
SortByScoreDesc(done, todo) ==
    IF todo = <<>> THEN done
    ELSE SortByScoreDesc(InsertByScore(done, Head(todo)), Tail(todo))

RECURSIVE PositiveRecords(_)
\* [record for score, record in scored_records if score > 0]
PositiveRecords(scored) ==
    IF scored = <<>> THEN <<>>
    ELSE (IF Head(scored)[1] > 0 THEN <<Head(scored)[2]>> ELSE <<>>)
         \o PositiveRecords(Tail(scored))

RECURSIVE RecordsOf(_)
\* [record for score, record in scored_records]
RecordsOf(scored) ==
    IF scored = <<>> THEN <<>> ELSE <<Head(scored)[2]>> \o RecordsOf(Tail(scored))

\* TopRecords without the sort of line 133
TopRecordsUnsorted(query, dataset, limit) ==
    LET scored == ScoredRecords(TermSet(tokenize_text(query)), dataset)
        top == Take(PositiveRecords(scored), limit)
    IN  IF scored = <<>> THEN <<>>
        ELSE IF top = <<>> THEN <<scored[1][2]>>
        ELSE top

\* TopRecords with the fallback of line 136 taking the first limit records
TopRecordsFallbackToLimit(query, dataset, limit) ==
    LET scored == SortByScoreDesc(<<>>, ScoredRecords(TermSet(tokenize_text(query)), dataset))
        top == Take(PositiveRecords(scored), limit)
    IN  IF scored = <<>> THEN <<>>
        ELSE IF top = <<>> THEN Take(RecordsOf(scored), limit)
        ELSE top

\* lines 133-136: the records whose summaries are returned
TopRecords(query, dataset, limit) ==
    LET scored == SortByScoreDesc(<<>>, ScoredRecords(TermSet(tokenize_text(query)), dataset))
        top == Take(PositiveRecords(scored), limit)
    IN  IF scored = <<>> THEN <<>>
        ELSE IF top = <<>> THEN <<scored[1][2]>>
        ELSE top

RECURSIVE SummaryLines(_)
\* [f"- {summary}" for summary in summaries if summary]
SummaryLines(records) ==
    IF records = <<>> THEN <<>>
    ELSE (IF format_record_summary(Head(records)) # ""
          THEN <<"- " \o format_record_summary(Head(records))>> ELSE <<>>)
         \o SummaryLines(Tail(records))

\* the lines that line 139 joins; none for an empty dataset (lines 116-117)
ContextLines(query, dataset, limit) ==
    IF dataset = <<>> THEN <<>>
    ELSE SummaryLines(TopRecords(query, dataset, limit))

build_dataset_context(query, dataset, limit) ==
    Join(ContextLines(query, dataset, limit), "\n")

TextBlock(text) == [type |-> "text", text |-> text]

\* build_user_content with an empty block where a block has nothing to say
build_user_content_placeholders(prompt, dataset, datetime_context) ==
    LET context == build_dataset_context(prompt, dataset, MAX_INTERNAL_CONTEXT_ROWS)
    IN  <<IF datetime_context # ""
          THEN TextBlock("User time context:\n" \o datetime_context
                         \o "\nTreat timestamps as the user's current local view.")
          ELSE TextBlock("")>>
        \o <<IF context # ""
              THEN TextBlock("Internal dataset excerpts (Honda Data Sources workbook):\n"
                             \o context
                             \o "\nUse this structured context when forming your answer.")
              ELSE TextBlock("")>>
        \o <<TextBlock(Str(prompt))>>

\* build_user_content with the prompt block put first
build_user_content_prompt_first(prompt, dataset, datetime_context) ==
    LET context == build_dataset_context(prompt, dataset, MAX_INTERNAL_CONTEXT_ROWS)
    IN  <<TextBlock(Str(prompt))>>
        \o (IF datetime_context # ""
            THEN <<TextBlock("User time context:\n" \o datetime_context
                             \o "\nTreat timestamps as the user's current local view.")>>
            ELSE <<>>)
        \o (IF context # ""
            THEN <<TextBlock("Internal dataset excerpts (Honda Data Sources workbook):\n"
                             \o context
                             \o "\nUse this structured context when forming your answer.")>>
            ELSE <<>>)

\* datetime_context is "" when absent
build_user_content(prompt, dataset, datetime_context) ==
    LET context == build_dataset_context(prompt, dataset, MAX_INTERNAL_CONTEXT_ROWS)
    IN  (IF datetime_context # ""
         THEN <<TextBlock("User time context:\n" \o datetime_context
                          \o "\nTreat timestamps as the user's current local view.")>>
         ELSE <<>>)
        \o (IF context # ""
            THEN <<TextBlock("Internal dataset excerpts (Honda Data Sources workbook):\n"
                             \o context
                             \o "\nUse this structured context when forming your answer.")>>
            ELSE <<>>)
        \o <<TextBlock(Str(prompt))>>

\* a dataset file as load_internal_dataset returns it
HONDA_DATASET ==
    << [source |-> <<"Forum">>, category |-> <<"EV">>,
        customer_insights |-> <<"Charging", "anxiety">>],
       [source |-> <<"Survey">>, details |-> <<"Mileage", "matters">>] >>

\* lines 462-467
TimeContext(clock) ==
    "User local datetime: " \o clock.display \o " | Additional context: "
    \o (IF clock.tzname # "" THEN clock.tzname ELSE "local timezone")

-----------------------------------------------------------------------------
(* Response content blocks (message_to_dict(response)["content"]). A block *)
(* is a record with a "type" field. Where the code tests isinstance, the   *)
(* value carries its Python type in the field py: a list is               *)
(* [py |-> "list", items |-> <<...>>], a dict is a record with             *)
(* py |-> "dict", None is [py |-> "none"]. A string that is None is None.  *)

PyNone == [py |-> "none"]
PyList(items) == [py |-> "list", items |-> items]
IsDict(value) == value.py = "dict"
IsList(value) == value.py = "list"

\* str.lstrip() on the strings of the model: " " and "\n" are whitespace
LStrip(s) ==
    CASE s = "  " -> ""
      [] s = "\n" -> ""
      [] s = " Hello" -> "Hello"
      [] OTHER -> s

\* str.rstrip() on the strings of the model
RStrip(s) ==
    CASE s = "  " -> ""
      [] s = "\n" -> ""
      [] s = "Hello\n" -> "Hello"
      [] OTHER -> s

\* f"- {title}" / f"- [{title}]({url})", then f" -- {cited_text}" (lines 242-249)
CitationLine(citation) ==
    LET url == Get(citation, "url", "")
        title == IF Get(citation, "title", "") # "" THEN citation.title
                 ELSE IF url # "" THEN url ELSE "Source"
        cited_text == Get(citation, "cited_text", "")
    IN  (IF url # "" THEN "- [" \o title \o "](" \o url \o ")" ELSE "- " \o title)
        \o (IF cited_text # "" THEN " -- " \o cited_text ELSE "")

RECURSIVE CitationLines(_)
CitationLines(citations) ==
    IF citations = <<>> THEN <<>>
    ELSE <<CitationLine(Head(citations))>> \o CitationLines(Tail(citations))

\* the segment of a text block (lines 237-253), stripped
TextSegment(block) ==
    LET text == Get(block, "text", "")
        citations == Get(block, "citations", <<>>)
    IN  IF citations = <<>> THEN RStrip(LStrip(text))
        ELSE LET shown == IF text = None THEN "None" ELSE text
                 tail == "**Citations:**\n" \o Join(CitationLines(citations), "\n")
             IN  IF LStrip(shown) = "" THEN tail
                 ELSE LStrip(shown) \o "\n\n" \o tail

\* text.strip() on None raises AttributeError (line 253)
TextSegmentRaises(block) ==
    /\ Get(block, "text", "") = None
    /\ Get(block, "citations", <<>>) = <<>>

\* the entries of a web_fetch_tool_result block (lines 263-268 and 331-336)
RECURSIVE DictItems(_)
DictItems(items) ==
    IF items = <<>> THEN <<>>
    ELSE (IF IsDict(Head(items)) THEN <<Head(items)>> ELSE <<>>)
         \o DictItems(Tail(items))

FetchEntries(block) ==
    LET raw_content == Get(block, "content", PyNone)
    IN  IF IsDict(raw_content) THEN <<raw_content>>
        ELSE IF IsList(raw_content) THEN DictItems(raw_content.items)
        ELSE <<>>

\* FetchWarnings with a break after the first warning of a block
FetchWarningsFirstOnly(entries) ==
    LET failed == {i \in DOMAIN entries :
                      \/ Get(entries[i], "type", None)
                            \in {"web_fetch_tool_result_error", "web_fetch_tool_error"}
                      \/ /\ Get(entries[i], "type", None) = None
                         /\ "error_code" \in DOMAIN entries[i]}
    IN  IF failed = {} THEN <<>>
        ELSE <<"(!) Web fetch error: "
               \o Get(entries[CHOOSE i \in failed : \A j \in failed : i <= j],
                      "error_code", "unknown error")>>

RECURSIVE FetchWarnings(_)
\* lines 271-276
FetchWarnings(entries) ==
    IF entries = <<>> THEN <<>>
    ELSE LET item == Head(entries)
             item_type == Get(item, "type", None)
         IN  (IF \/ item_type \in {"web_fetch_tool_result_error", "web_fetch_tool_error"}
                 \/ (item_type = None /\ "error_code" \in DOMAIN item)
              THEN <<"(!) Web fetch error: " \o Get(item, "error_code", "unknown error")>>
              ELSE <<>>)
             \o FetchWarnings(Tail(entries))

\* json.dumps(block, ensure_ascii=False) for a block of string fields type, data
BlockJson(block) ==
    "{"
    \o (IF "type" \in DOMAIN block THEN "\"type\": \"" \o block.type \o "\"" ELSE "")
    \o (IF "type" \in DOMAIN block /\ "data" \in DOMAIN block THEN ", " ELSE "")
    \o (IF "data" \in DOMAIN block THEN "\"data\": \"" \o block.data \o "\"" ELSE "")
    \o "}"

\* the segments one block contributes (the loop body, lines 233-283)
BlockSegments(block) ==
    LET block_type == Get(block, "type", None)
    IN  CASE block_type \in {"thinking", "redacted_thinking"} -> <<>>
          [] block_type = "text" -> <<TextSegment(block)>>
          [] block_type = "server_tool_use" -> <<>>
          [] block_type = "web_search_tool_result" ->
                LET content == Get(block, "content", PyList(<<>>))
                IN  IF IsDict(content)
                       /\ Get(content, "type", None) = "web_search_tool_result_error"
                    THEN <<"(!) Web search error: "
                           \o Get(content, "error_code", "unknown error")>>
                    ELSE <<>>
          [] block_type = "web_fetch_tool_result" -> FetchWarnings(FetchEntries(block))
          [] OTHER -> <<"_" \o (IF block_type = None THEN "None" ELSE block_type)
                          \o ": " \o BlockJson(block) \o "_">>

RECURSIVE Segments(_)
Segments(blocks) ==
    IF blocks = <<>> THEN <<>>
    ELSE BlockSegments(Head(blocks)) \o Segments(Tail(blocks))

RECURSIVE NonEmpty(_)
\* [segment for segment in segments if segment]
NonEmpty(segments) ==
    IF segments = <<>> THEN <<>>
    ELSE (IF Head(segments) # "" THEN <<Head(segments)>> ELSE <<>>)
         \o NonEmpty(Tail(segments))

NO_READABLE_CONTENT == "_The assistant returned no readable content._"

\* format_blocks_for_display without the placeholder of line 286
format_blocks_or_nothing(blocks) ==
    Join(NonEmpty(Segments(blocks)), "\n\n")

\* segments are stripped or end in visible text, so the final strip() of
\* line 285 changes nothing
format_blocks_for_display(blocks) ==
    LET formatted == Join(NonEmpty(Segments(blocks)), "\n\n")
    IN  IF formatted # "" THEN formatted ELSE NO_READABLE_CONTENT

\* format_blocks_for_display raises instead of returning
FormatRaises(blocks) ==
    \E i \in DOMAIN blocks :
        Get(blocks[i], "type", None) = "text" /\ TextSegmentRaises(blocks[i])

RECURSIVE ResearchActions(_)
\* the "summaries" list of extract_tool_summary (lines 312-321)
ResearchActions(blocks) ==
    IF blocks = <<>> THEN <<>>
    ELSE LET block == Head(blocks)
             name == Get(block, "name", None)
             input == Get(block, "input", [py |-> "dict"])
             query == Get(input, "query", "")
             url == Get(input, "url", "")
         IN  (IF Get(block, "type", None) # "server_tool_use" THEN <<>>
              ELSE IF name = "web_search" /\ query # "" THEN <<"Web search: " \o query>>
              ELSE IF name = "web_fetch" /\ url # "" THEN <<"Web fetch: " \o url>>
              ELSE <<>>)
             \o ResearchActions(Tail(blocks))

\* f"- [{title}]({url})" if url else f"- {title}" (lines 352 and 356)
LinkLine(title, url) ==
    IF url # "" THEN "- [" \o title \o "](" \o url \o ")" ELSE "- " \o title

RECURSIVE SearchItemLines(_)
\* lines 325-329, for the items of one block
SearchItemLines(items) ==
    IF items = <<>> THEN <<>>
    ELSE LET item == Head(items)
         IN  (IF Get(item, "type", None) = "web_search_result"
              THEN <<LinkLine(IF Get(item, "title", "") # "" THEN item.title
                              ELSE "Search result",
                              Get(item, "url", ""))>>
              ELSE <<>>)
             \o SearchItemLines(Tail(items))

SEARCH_RESULTS_PER_BLOCK == 5
FETCH_RESULTS_PER_BLOCK == 3

RECURSIVE SearchHitsUncapped(_)
\* SearchHits taking every item of a block's content
SearchHitsUncapped(blocks) ==
    IF blocks = <<>> THEN <<>>
    ELSE LET block == Head(blocks)
             content == Get(block, "content", PyList(<<>>))
         IN  (IF Get(block, "type", None) = "web_search_tool_result" /\ IsList(content)
              THEN SearchItemLines(content.items)
              ELSE <<>>)
             \o SearchHitsUncapped(Tail(blocks))

RECURSIVE SearchHits(_)
\* the "search_results" list (lines 322-329)
SearchHits(blocks) ==
    IF blocks = <<>> THEN <<>>
    ELSE LET block == Head(blocks)
             content == Get(block, "content", PyList(<<>>))
         IN  (IF Get(block, "type", None) = "web_search_tool_result" /\ IsList(content)
              THEN SearchItemLines(Take(content.items, SEARCH_RESULTS_PER_BLOCK))
              ELSE <<>>)
             \o SearchHits(Tail(blocks))

RECURSIVE FetchItemLines(_)
\* lines 337-343, for the entries of one block
FetchItemLines(entries) ==
    IF entries = <<>> THEN <<>>
    ELSE LET item == Head(entries)
             content_block == Get(item, "content", PyNone)
             title == IF IsDict(content_block) THEN Get(content_block, "title", "") ELSE ""
         IN  <<LinkLine(IF title # "" THEN title ELSE "Fetched document",
                        Get(item, "url", ""))>>
             \o FetchItemLines(Tail(entries))

RECURSIVE FetchedDocs(_)
\* the "fetch_results" list (lines 330-343)
FetchedDocs(blocks) ==
    IF blocks = <<>> THEN <<>>
    ELSE (IF Get(Head(blocks), "type", None) = "web_fetch_tool_result"
          THEN FetchItemLines(Take(FetchEntries(Head(blocks)), FETCH_RESULTS_PER_BLOCK))
          ELSE <<>>)
         \o FetchedDocs(Tail(blocks))

RECURSIVE Prefixed(_, _)
\* [f"{prefix}{entry}" for entry in entries]
Prefixed(prefix, entries) ==
    IF entries = <<>> THEN <<>>
    ELSE <<prefix \o Head(entries)>> \o Prefixed(prefix, Tail(entries))

\* the "lines" list (lines 345-356)
ToolSummaryLines(blocks) ==
    LET summaries == ResearchActions(blocks)
        search_results == SearchHits(blocks)
        fetch_results == FetchedDocs(blocks)
    IN  (IF summaries # <<>>
         THEN <<"**Research actions**">> \o Prefixed("- ", summaries) ELSE <<>>)
        \o (IF search_results # <<>>
            THEN <<"**Search hits**">> \o search_results ELSE <<>>)
        \o (IF fetch_results # <<>>
            THEN <<"**Fetched docs**">> \o fetch_results ELSE <<>>)

extract_tool_summary(blocks) == Join(ToolSummaryLines(blocks), "\n")

-----------------------------------------------------------------------------
(* The backend's failures (anthropic's exception classes, imported on line *)
(* 11) and the except chain of a turn (lines 694-701).                     *)

\* the classes an exception is an instance of, most derived first
ClassChain(cls) ==
    CASE cls = "RateLimitError" ->
            <<"RateLimitError", "APIStatusError", "APIError", "Exception">>
      [] cls = "InternalServerError" ->
            <<"InternalServerError", "APIStatusError", "APIError", "Exception">>
      [] cls = "APIConnectionError" -> <<"APIConnectionError", "APIError", "Exception">>
      [] OTHER -> <<cls, "Exception">>

IsInstance(exc, class) == \E i \in DOMAIN ClassChain(exc.cls) : ClassChain(exc.cls)[i] = class

NoExc == [cls |-> "none", status_code |-> 0, message |-> ""]

RateLimited == [cls |-> "RateLimitError", status_code |-> 429, message |-> "Too many requests"]
Overloaded == [cls |-> "InternalServerError", status_code |-> 529, message |-> "Overloaded"]
ConnectionFailed == [cls |-> "APIConnectionError", status_code |-> 0, message |-> "Too many requests"]

\* what the backend call raises, before or between text fragments
BackendErrors == {RateLimited, Overloaded, ConnectionFailed}

\* line 422
NoFinalResponse ==
    [cls |-> "AttributeError", status_code |-> 0,
     message |-> "Streaming interface missing a method to retrieve the final response."]

\* line 202
UnsupportedMessage ==
    [cls |-> "TypeError", status_code |-> 0,
     message |-> "Unsupported message type returned by Anthropic SDK."]

\* line 253, on a text block whose text is None
NoneHasNoStrip ==
    [cls |-> "AttributeError", status_code |-> 0,
     message |-> "'NoneType' object has no attribute 'strip'"]

RATE_LIMIT_NOTICE == "(!) Rate limit reached. Please wait a moment before trying again."

\* ErrorReply with the APIStatusError clause tried before the RateLimitError one
ErrorReplyStatusFirst(exc) ==
    IF IsInstance(exc, "APIStatusError")
    THEN "API error " \o ToString(exc.status_code) \o ": " \o exc.message
    ELSE IF IsInstance(exc, "RateLimitError") THEN RATE_LIMIT_NOTICE
    ELSE IF IsInstance(exc, "APIError") THEN "Unexpected API error: " \o exc.message
    ELSE "Unhandled error while calling the assistant: " \o exc.message

\* the reply an except clause sets, first matching clause first (lines 694-701)
ErrorReply(exc) ==
    IF IsInstance(exc, "RateLimitError") THEN RATE_LIMIT_NOTICE
    ELSE IF IsInstance(exc, "APIStatusError")
         THEN "API error " \o ToString(exc.status_code) \o ": " \o exc.message
    ELSE IF IsInstance(exc, "APIError") THEN "Unexpected API error: " \o exc.message
    ELSE "Unhandled error while calling the assistant: " \o exc.message

-----------------------------------------------------------------------------
(* What the backend may answer.                                            *)

SearchUse ==
    [type |-> "server_tool_use", name |-> "web_search",
     input |-> [py |-> "dict", query |-> "EV charging India"]]

SearchResult ==
    [type |-> "web_search_tool_result",
     content |-> PyList(<<[py |-> "dict", type |-> "web_search_result",
                           title |-> "EV owners survey", url |-> "http://x"]>>)]

SearchError ==
    [type |-> "web_search_tool_result",
     content |-> [py |-> "dict", type |-> "web_search_tool_result_error",
                  error_code |-> "max_uses_exceeded"]]

\* a fetch result with two failed items and a fetched one between them
FetchErrors ==
    [type |-> "web_fetch_tool_result",
     content |-> PyList(<<[py |-> "dict", type |-> "web_fetch_tool_result_error",
                           error_code |-> "url_not_accessible"],
                          [py |-> "dict", type |-> "web_fetch_result", url |-> "http://y",
                           content |-> [py |-> "dict", title |-> "Charging report"]],
                          [py |-> "dict", error_code |-> "too_many_requests"]>>)]

Thinking == [type |-> "thinking", thinking |-> "Let me think."]

CitedText ==
    [type |-> "text", text |-> "EV owners often cite charging anxiety.",
     citations |-> <<[title |-> "Foo", url |-> "http://x", cited_text |-> "anxiety"]>>]

\* the content of the final message, message_to_dict(response)["content"]
Responses ==
    { <<TextBlock("Hello")>>,
      <<>>,
      <<Thinking, SearchUse, SearchResult, CitedText>>,
      <<SearchError, TextBlock("Hello"), FetchErrors>>,
      <<SearchUse, [type |-> "text", text |-> None]>> }

\* text fragments of stream.text_stream
Fragments == {"", "Hel", "lo"}

\* the fragments of a stream add up to the text of one message, "Hello":
\* what a stream has produced so far is a prefix of it
StreamedPrefixes == {"", "Hel", "Hello"}

\* hasattr(stream, ...) of lines 414-421: the ways to the final message
FinalAccessors == {"get_final_response", "get_final_message", "final_response", "response"}

\* hasattr(message, ...) of lines 196-201
DumpMethods == {"model_dump", "dict", "to_dict"}

-----------------------------------------------------------------------------
(* The session: configuration, inputs and the initial state.               *)

\* st.secrets is "unavailable" when reading it raises, "absent" when it
\* has no ANTHROPIC_API_KEY, and else the value stored under that key
get_configured_api_key(secrets_value, environ_value) ==
    IF secrets_value \notin {"unavailable", "absent"} THEN secrets_value
    ELSE environ_value

\* the deployments: st.secrets, os.environ and the dataset file's content
Deployments ==
    { [secrets |-> "unavailable", environ |-> "", dataset |-> HONDA_DATASET],
      [secrets |-> "", environ |-> "sk-ant-env", dataset |-> <<>>],
      [secrets |-> "absent", environ |-> "sk-ant-env", dataset |-> HONDA_DATASET],
      [secrets |-> "sk-ant-secret", environ |-> "", dataset |-> <<>>] }

ActiveApiKey == get_configured_api_key(secrets, environ)

\* what the user types into st.chat_input
ChatPrompts == { <<"What", "issues", "are", "EV", "users", "reporting">> }

\* datetime.now().astimezone(): strftime display and tzname() ("" for None)
Clocks == { [display |-> "Sunday, 01 November 2026 18:56 IST (UTC+0530)", tzname |-> "IST"] }

EMPTY_RESPONSE == "_The assistant returned an empty response._"

NoMessage == [role |-> "none", content |-> <<>>]
NoRequest == [conversation |-> <<>>, system |-> "", persona |-> None]
NoResponse == [status |-> "none", exc |-> NoExc, content |-> <<>>]
\* no stream has ended in this script run
NoStream == [attrs |-> {"unopened"}, message |-> [attrs |-> {}, content |-> <<>>]]
\* no pure helper is being called
NoCall == [fn |-> "none"]
NoResult == [returned |-> FALSE]
\* a UI event: its widget, the persona of an "Interview" button, and the
\* number of display entries the session held when its handler ran
Event(kind, arg, dropped) == [kind |-> kind, arg |-> arg, dropped |-> dropped]

\* the session state after construction (lines 445-452)
SessionInit ==
    /\ \E deployment \in Deployments :
          /\ secrets = deployment.secrets
          /\ environ = deployment.environ
          /\ internal_dataset = deployment.dataset
    /\ messages = <<>>
    /\ api_messages = <<>>
    /\ last_tool_summary = ""
    /\ selected_persona_id = None
    /\ pending_prompt = <<>>
    /\ suggested_hidden = FALSE
    /\ screen = "none"
    /\ rerun_requested = FALSE
    /\ pc = "idle"
    /\ stream_buffer = ""
    /\ chunks = 0
    /\ event = Event("none", None, 0)
    /\ submitted = 0
    /\ calls = 0
    /\ request = NoRequest
    /\ response = NoResponse
    /\ text_stream = <<>>
    /\ delivered = <<>>
    /\ stream = NoStream

Init ==
    /\ SessionInit
    /\ call = NoCall
    /\ result = NoResult

\* the widgets of the last rendered page can be used
Interactive(page) ==
    /\ pc = "idle"
    /\ ~rerun_requested
    /\ screen = page

-----------------------------------------------------------------------------
(* A turn (src/app.py lines 628-715).                                      *)

\* BeginTurn with the user turn sent to the backend but not kept in api_messages
BeginTurnUnrecorded(prompt, clock) ==
    LET user_blocks == build_user_content(prompt, internal_dataset, TimeContext(clock))
        conversation == Append(api_messages, [role |-> "user", content |-> user_blocks])
    IN  /\ messages' = Append(messages, [role |-> "user", content |-> Str(prompt)])
        /\ suggested_hidden' = TRUE
        /\ pending_prompt' = <<>>
        /\ submitted' = submitted + 1
        /\ calls' = calls + 1
        /\ request' = [conversation |-> conversation,
                       system |-> SystemPrompt(FindPersona(selected_persona_id)),
                       persona |-> selected_persona_id]
        /\ response' = [status |-> "pending", exc |-> NoExc, content |-> <<>>]
        /\ pc' = "streaming"
        /\ stream_buffer' = ""
        /\ chunks' = 0
        /\ text_stream' = <<>>
        /\ delivered' = <<>>
        /\ stream' = NoStream
        /\ rerun_requested' = FALSE
        /\ screen' = "chat"
        /\ UNCHANGED <<call, result, secrets, environ, internal_dataset, last_tool_summary,
                       selected_persona_id, api_messages>>

\* BeginTurn with pending_prompt read by get() instead of pop() on line 621
BeginTurnKeepsPending(prompt, clock) ==
    LET user_blocks == build_user_content(prompt, internal_dataset, TimeContext(clock))
        conversation == Append(api_messages, [role |-> "user", content |-> user_blocks])
    IN  /\ messages' = Append(messages, [role |-> "user", content |-> Str(prompt)])
        /\ api_messages' = conversation
        /\ suggested_hidden' = TRUE
        /\ submitted' = submitted + 1
        /\ calls' = calls + 1
        /\ request' = [conversation |-> conversation,
                       system |-> SystemPrompt(FindPersona(selected_persona_id)),
                       persona |-> selected_persona_id]
        /\ response' = [status |-> "pending", exc |-> NoExc, content |-> <<>>]
        /\ pc' = "streaming"
        /\ stream_buffer' = ""
        /\ chunks' = 0
        /\ text_stream' = <<>>
        /\ delivered' = <<>>
        /\ stream' = NoStream
        /\ rerun_requested' = FALSE
        /\ screen' = "chat"
        /\ UNCHANGED <<call, result, secrets, environ, internal_dataset, last_tool_summary,
                       selected_persona_id, pending_prompt>>

\* lines 628-674: the user entries are appended and the backend is called
BeginTurn(prompt, clock) ==
    LET user_blocks == build_user_content(prompt, internal_dataset, TimeContext(clock))
        conversation == Append(api_messages, [role |-> "user", content |-> user_blocks])
    IN  /\ messages' = Append(messages, [role |-> "user", content |-> Str(prompt)])
        /\ api_messages' = conversation
        /\ suggested_hidden' = TRUE
        /\ pending_prompt' = <<>>
        /\ submitted' = submitted + 1
        /\ calls' = calls + 1
        /\ request' = [conversation |-> conversation,
                       system |-> SystemPrompt(FindPersona(selected_persona_id)),
                       persona |-> selected_persona_id]
        /\ response' = [status |-> "pending", exc |-> NoExc, content |-> <<>>]
        /\ pc' = "streaming"
        /\ stream_buffer' = ""
        /\ chunks' = 0
        /\ text_stream' = <<>>
        /\ delivered' = <<>>
        /\ stream' = NoStream
        /\ rerun_requested' = FALSE
        /\ screen' = "chat"
        /\ UNCHANGED <<call, result, secrets, environ, internal_dataset, last_tool_summary,
                       selected_persona_id>>

RECURSIVE TextBlocksOnly(_)
TextBlocksOnly(blocks) ==
    IF blocks = <<>> THEN <<>>
    ELSE (IF Get(Head(blocks), "type", None) = "text" THEN <<Head(blocks)>> ELSE <<>>)
         \o TextBlocksOnly(Tail(blocks))

\* AssistantApiContent keeping the text blocks of the response only
AssistantTextOnly(response_blocks, reply) ==
    IF TextBlocksOnly(response_blocks) # <<>> THEN TextBlocksOnly(response_blocks)
    ELSE <<TextBlock(reply)>>

\* AssistantApiContent without the else branch of line 692
AssistantApiContentAsReceived(response_blocks, reply) == response_blocks

\* lines 688-693: the content of the assistant's API entry of a good turn
AssistantApiContent(response_blocks, reply) ==
    IF response_blocks # <<>> THEN response_blocks ELSE <<TextBlock(reply)>>

\* lines 703-715: both assistant entries are appended, the summary stored
FinishTurn(try_reply, assistant_api_message, tool_summary, answer) ==
    LET reply == IF try_reply # "" THEN try_reply ELSE EMPTY_RESPONSE
    IN  /\ messages' = Append(messages, [role |-> "assistant", content |-> reply])
        /\ api_messages' =
              Append(api_messages,
                     IF assistant_api_message = NoMessage
                     THEN [role |-> "assistant", content |-> <<TextBlock(reply)>>]
                     ELSE assistant_api_message)
        /\ last_tool_summary' = tool_summary
        /\ response' = answer
        /\ request' = NoRequest
        /\ chunks' = 0
        /\ text_stream' = <<>>
        /\ delivered' = <<>>
        /\ pc' = "idle"
        /\ UNCHANGED <<call, result, secrets, environ, internal_dataset, selected_persona_id,
                       pending_prompt, suggested_hidden, screen, rerun_requested,
                       event, submitted, calls, stream_buffer>>

\* FailTurn with an API entry built from the response blocks that never came
FailTurnEmptyContent(exc) ==
    FinishTurn(ErrorReply(exc), [role |-> "assistant", content |-> <<>>], "",
               [status |-> "raised", exc |-> exc, content |-> <<>>])

\* FailTurn with tool_summary starting from the session's last summary
FailTurnKeepsSummary(exc) ==
    FinishTurn(ErrorReply(exc), NoMessage, last_tool_summary,
               [status |-> "raised", exc |-> exc, content |-> <<>>])

\* FailTurn with the error message added to the text streamed so far
FailTurnAfterStreamedText(exc) ==
    FinishTurn(IF stream_buffer # "" THEN stream_buffer \o "\n\n" \o ErrorReply(exc)
               ELSE ErrorReply(exc),
               NoMessage, "",
               [status |-> "raised", exc |-> exc, content |-> <<>>])

\* an except clause of lines 694-701 ran: reply is the error message
FailTurn(exc) ==
    FinishTurn(ErrorReply(exc), NoMessage, "",
               [status |-> "raised", exc |-> exc, content |-> <<>>])

\* lines 684-693 ran to the end
CompleteTurn(response_blocks) ==
    LET reply == format_blocks_for_display(response_blocks)
    IN  FinishTurn(reply,
                   [role |-> "assistant",
                    content |-> AssistantApiContent(response_blocks, reply)],
                   extract_tool_summary(response_blocks),
                   [status |-> "ok", exc |-> NoExc, content |-> response_blocks])

\* StreamText with handle_chunk assigning the chunk instead of adding it
StreamTextOverwrite(fragment) ==
    /\ pc = "streaming"
    /\ chunks < MaxChunks
    /\ Join(text_stream, "") \o fragment \in StreamedPrefixes
    /\ chunks' = chunks + 1
    /\ text_stream' = Append(text_stream, fragment)
    /\ delivered' = IF fragment # "" THEN Append(delivered, fragment) ELSE delivered
    /\ stream_buffer' = IF fragment # "" THEN fragment ELSE stream_buffer
    /\ UNCHANGED stream
    /\ UNCHANGED <<call, result, secrets, environ, internal_dataset, messages,
                   api_messages, last_tool_summary, selected_persona_id,
                   pending_prompt, suggested_hidden, screen, rerun_requested, pc,
                   event, submitted, calls, request, response>>

\* lines 408-410 and 661-664: one fragment of stream.text_stream
StreamText(fragment) ==
    /\ pc = "streaming"
    /\ chunks < MaxChunks
    /\ Join(text_stream, "") \o fragment \in StreamedPrefixes
    /\ chunks' = chunks + 1
    /\ text_stream' = Append(text_stream, fragment)
    /\ delivered' = IF fragment # "" THEN Append(delivered, fragment) ELSE delivered
    /\ stream_buffer' = IF fragment # "" THEN stream_buffer \o fragment ELSE stream_buffer
    /\ UNCHANGED stream
    /\ UNCHANGED <<call, result, secrets, environ, internal_dataset, messages, api_messages,
                   last_tool_summary, selected_persona_id, pending_prompt,
                   suggested_hidden, screen, rerun_requested, pc, event, submitted,
                   calls, request, response>>

\* StreamRaise with one more call to the backend after a rate limit
StreamRaiseRetry(exc) ==
    /\ pc = "streaming"
    /\ IF exc = RateLimited /\ calls = submitted
       THEN /\ calls' = calls + 1
            /\ UNCHANGED <<call, result, secrets, environ, internal_dataset, messages,
                           api_messages, last_tool_summary, selected_persona_id,
                           pending_prompt, suggested_hidden, screen, rerun_requested,
                           pc, stream_buffer, chunks, event, submitted, request,
                           response, text_stream, delivered, stream>>
       ELSE FailTurn(exc) /\ stream' = NoStream

\* the backend call raises, before or between fragments
StreamRaise(exc) ==
    /\ pc = "streaming"
    /\ FailTurn(exc)
    /\ stream' = NoStream

\* EndOfStreamError with getattr(stream, "response", None) as the last resort
EndOfStreamErrorNoRaise(ended) ==
    IF ended.attrs \cap FinalAccessors = {} THEN UnsupportedMessage
    ELSE IF ended.message.attrs \cap DumpMethods = {} THEN UnsupportedMessage
    ELSE IF FormatRaises(ended.message.content) THEN NoneHasNoStrip
    ELSE NoExc

\* the exception of lines 414-422 and 684-686, NoExc if there is none
EndOfStreamError(ended) ==
    IF ended.attrs \cap FinalAccessors = {} THEN NoFinalResponse
    ELSE IF ended.message.attrs \cap DumpMethods = {} THEN UnsupportedMessage
    ELSE IF FormatRaises(ended.message.content) THEN NoneHasNoStrip
    ELSE NoExc

\* text_stream is exhausted: the final message is fetched, converted, rendered
StreamEnd(ended) ==
    /\ pc = "streaming"
    /\ stream' = ended
    /\ IF EndOfStreamError(ended) # NoExc
       THEN FailTurn(EndOfStreamError(ended))
       ELSE CompleteTurn(ended.message.content)

-----------------------------------------------------------------------------
(* Script runs: one per UI event (src/app.py, main).                       *)

\* DeselectPersona without the reset of api_messages
DeselectKeepsApiHistory(kind) ==
    /\ selected_persona_id' = None
    /\ messages' = <<>>
    /\ last_tool_summary' = ""
    /\ rerun_requested' = TRUE
    /\ event' = Event(kind, None, Len(messages))
    /\ response' = NoResponse
    /\ stream' = NoStream
    /\ stream_buffer' = ""
    /\ UNCHANGED <<text_stream, delivered>>
    /\ UNCHANGED <<call, result, secrets, environ, internal_dataset, api_messages, pending_prompt,
                   suggested_hidden, screen, pc, chunks, submitted,
                   calls, request>>

\* lines 528-532 and 596-600: "Change persona" and "Back to Personas"
DeselectPersona(kind) ==
    /\ selected_persona_id' = None
    /\ messages' = <<>>
    /\ api_messages' = <<>>
    /\ last_tool_summary' = ""
    /\ rerun_requested' = TRUE
    /\ event' = Event(kind, None, Len(messages))
    /\ response' = NoResponse
    /\ stream' = NoStream
    /\ stream_buffer' = ""
    /\ UNCHANGED <<text_stream, delivered>>
    /\ UNCHANGED <<call, result, secrets, environ, internal_dataset, pending_prompt,
                   suggested_hidden, screen, pc, chunks, submitted,
                   calls, request>>

\* line 527: the sidebar button, shown while a persona is active
ChangePersona ==
    /\ Interactive("chat")
    /\ DeselectPersona("change_persona")

\* line 595
BackToPersonas ==
    /\ Interactive("chat")
    /\ DeselectPersona("back_to_personas")

\* ResetConversation with the persona reset of "Change persona" copied in
ResetConversationAndPersona ==
    /\ selected_persona_id' = None
    /\ messages' = <<>>
    /\ api_messages' = <<>>
    /\ last_tool_summary' = ""
    /\ pending_prompt' = <<>>
    /\ suggested_hidden' = FALSE
    /\ rerun_requested' = TRUE
    /\ event' = Event("clear_conversation", None, Len(messages))
    /\ response' = NoResponse
    /\ stream' = NoStream
    /\ stream_buffer' = ""
    /\ UNCHANGED <<text_stream, delivered>>
    /\ UNCHANGED <<call, result, secrets, environ, internal_dataset, screen, pc,
                   chunks, submitted, calls, request>>

\* lines 535-541: the handler of "Clear conversation"
ResetConversation ==
    /\ messages' = <<>>
    /\ api_messages' = <<>>
    /\ last_tool_summary' = ""
    /\ pending_prompt' = <<>>
    /\ suggested_hidden' = FALSE
    /\ rerun_requested' = TRUE
    /\ event' = Event("clear_conversation", None, Len(messages))
    /\ response' = NoResponse
    /\ stream' = NoStream
    /\ stream_buffer' = ""
    /\ UNCHANGED <<text_stream, delivered>>
    /\ UNCHANGED <<call, result, secrets, environ, internal_dataset, selected_persona_id, screen,
                   pc, chunks, submitted, calls, request>>

\* line 534: the sidebar button, shown on both pages
ClearConversation ==
    /\ pc = "idle"
    /\ ~rerun_requested
    /\ screen \in {"personas", "chat"}
    /\ ResetConversation

\* SelectPersona with the loop variable read after the loop: the last persona
SelectLastPersona(persona_id) ==
    /\ selected_persona_id' = PERSONAS[Len(PERSONAS)].id
    /\ messages' = <<>>
    /\ api_messages' = <<>>
    /\ last_tool_summary' = ""
    /\ rerun_requested' = TRUE
    /\ event' = Event("select_persona", persona_id, Len(messages))
    /\ response' = NoResponse
    /\ stream' = NoStream
    /\ stream_buffer' = ""
    /\ UNCHANGED <<text_stream, delivered>>
    /\ UNCHANGED <<call, result, secrets, environ, internal_dataset, pending_prompt,
                   suggested_hidden, screen, pc, chunks, submitted,
                   calls, request>>

\* lines 585-589: the handler of "Interview <name>"
SelectPersona(persona_id) ==
    /\ selected_persona_id' = persona_id
    /\ messages' = <<>>
    /\ api_messages' = <<>>
    /\ last_tool_summary' = ""
    /\ rerun_requested' = TRUE
    /\ event' = Event("select_persona", persona_id, Len(messages))
    /\ response' = NoResponse
    /\ stream' = NoStream
    /\ stream_buffer' = ""
    /\ UNCHANGED <<text_stream, delivered>>
    /\ UNCHANGED <<call, result, secrets, environ, internal_dataset, pending_prompt,
                   suggested_hidden, screen, pc, chunks, submitted,
                   calls, request>>

\* line 584: one button per persona on the selection page
ClickInterview(persona_id) ==
    /\ Interactive("personas")
    /\ SelectPersona(persona_id)

\* lines 621-674 with a prompt typed into st.chat_input
ChatInput(prompt, clock) ==
    /\ Interactive("chat")
    /\ submitted < MaxPrompts
    /\ event' = Event("chat_input", None, Len(messages))
    /\ BeginTurn(IF pending_prompt # <<>> THEN pending_prompt ELSE prompt, clock)

\* lines 719-736: an interview starter is clicked
ClickStarter(question) ==
    /\ Interactive("chat")
    /\ submitted < MaxPrompts
    /\ ~suggested_hidden
    /\ messages = <<>>
    /\ pending_prompt' = question
    /\ suggested_hidden' = TRUE
    /\ rerun_requested' = TRUE
    /\ event' = Event("starter", None, Len(messages))
    /\ response' = NoResponse
    /\ stream' = NoStream
    /\ stream_buffer' = ""
    /\ UNCHANGED <<text_stream, delivered>>
    /\ UNCHANGED <<call, result, secrets, environ, internal_dataset, messages, api_messages,
                   last_tool_summary, selected_persona_id, screen, pc,
                   chunks, submitted, calls, request>>

\* lines 625-626 and 741-758: a suggested follow-up is clicked
ClickFollowup(question) ==
    /\ Interactive("chat")
    /\ submitted < MaxPrompts
    /\ messages # <<>>
    /\ pending_prompt' = question
    /\ suggested_hidden' = TRUE
    /\ rerun_requested' = TRUE
    /\ event' = Event("followup", None, Len(messages))
    /\ response' = NoResponse
    /\ stream' = NoStream
    /\ stream_buffer' = ""
    /\ UNCHANGED <<text_stream, delivered>>
    /\ UNCHANGED <<call, result, secrets, environ, internal_dataset, messages, api_messages,
                   last_tool_summary, selected_persona_id, screen, pc,
                   chunks, submitted, calls, request>>

\* PageOf without the stop of lines 458-460
PageOfWithoutKeyCheck(api_key, persona_id) ==
    IF FindPersona(persona_id).id = None THEN "personas" ELSE "chat"

\* the page a script run without a turn ends on (lines 458-460, 544-590)
PageOf(api_key, persona_id) ==
    IF api_key = "" THEN "key_missing"
    ELSE IF FindPersona(persona_id).id = None THEN "personas"
    ELSE "chat"

\* a script run that no widget triggered: the first run of the session, the
\* run request_rerun() starts, or a refresh of the page
Rerun(clock) ==
    /\ pc = "idle"
    /\ event' = Event("rerun", None, Len(messages))
    /\ IF PageOf(ActiveApiKey, selected_persona_id) = "chat" /\ pending_prompt # <<>>
       THEN BeginTurn(pending_prompt, clock)
       ELSE /\ screen' = PageOf(ActiveApiKey, selected_persona_id)
            /\ rerun_requested' = FALSE
            /\ pending_prompt' =
                  IF PageOf(ActiveApiKey, selected_persona_id) = "chat"
                  THEN <<>> ELSE pending_prompt
            /\ suggested_hidden' =
                  IF PageOf(ActiveApiKey, selected_persona_id) = "chat" /\ messages # <<>>
                  THEN TRUE ELSE suggested_hidden
            /\ response' = NoResponse
            /\ stream' = NoStream
            /\ stream_buffer' = ""
            /\ UNCHANGED <<text_stream, delivered>>
            /\ UNCHANGED <<call, result, secrets, environ, internal_dataset, messages,
                           api_messages, last_tool_summary, selected_persona_id, pc,
                           chunks, submitted, calls, request>>

\* the stream objects a backend call may end with: the attributes the stream
\* has, and the final message with its attributes and its content
StreamObjects ==
    { [attrs |-> {"get_final_response"},
       message |-> [attrs |-> {"model_dump"}, content |-> blocks]] : blocks \in Responses }
    \cup
    { [attrs |-> {"get_final_message", "response"},
       message |-> [attrs |-> {"to_dict"}, content |-> <<TextBlock("Hello")>>]],
      [attrs |-> {"response"},
       message |-> [attrs |-> {}, content |-> <<TextBlock("Hello")>>]],
      [attrs |-> {},
       message |-> [attrs |-> {"model_dump"}, content |-> <<TextBlock("Hello")>>]] }

\* the first MaxSuggestions buttons of a row of suggestions
Offered(prompts) == {prompts[i] : i \in DOMAIN prompts \cap 1..MaxSuggestions}

SuggestedQuestions ==
    Offered(get_suggested_prompts(selected_persona_id))

FollowupQuestions ==
    LET persona == FindPersona(selected_persona_id)
    IN  Offered(IF persona.id = None THEN <<>> ELSE get_followup_prompts(persona))

Next ==
    \/ \E clock \in Clocks : Rerun(clock)
    \/ ChangePersona
    \/ BackToPersonas
    \/ ClearConversation
    \/ \E persona_id \in PersonaIds : ClickInterview(persona_id)
    \/ \E prompt \in ChatPrompts, clock \in Clocks : ChatInput(prompt, clock)
    \/ \E question \in SuggestedQuestions : ClickStarter(question)
    \/ \E question \in FollowupQuestions : ClickFollowup(question)
    \/ \E fragment \in Fragments : StreamText(fragment)
    \/ \E exc \in BackendErrors : StreamRaise(exc)
    \/ \E ended \in StreamObjects : StreamEnd(ended)

Spec == Init /\ [][Next]_vars

-----------------------------------------------------------------------------
(* Properties.                                                             *)

Last(seq) == seq[Len(seq)]

\* seq is short extended by exactly one entry
GrewByOne(short, seq) == Len(seq) = Len(short) + 1 /\ SubSeq(seq, 1, Len(short)) = short

TurnEnds == pc = "streaming" /\ pc' = "idle"
TurnBegins == pc = "idle" /\ pc' = "streaming"

\* the step is the handler of a button, which ends in request_rerun()
Handles(kinds) == ~rerun_requested /\ rerun_requested' /\ event'.kind \in kinds

\* C1: in every state the display history and the API-native history have
\* the same length, so neither is ever cleared (or grown) without the other.
C1_SameLength == Len(messages) = Len(api_messages)

\* two turns are on record, the second one a handled failure
C1_Witness ==
    /\ pc = "idle"
    /\ response.status = "raised"
    /\ Len(messages) = 4
    /\ Len(api_messages) = 4

\* C2: a submitted prompt first appends one user entry to each history, in
\* the step that calls the backend; the end of the call, good or bad, appends
\* one assistant entry to each; nothing is appended in between; so a
\* completed turn leaves a user entry followed by an assistant entry last.
C2_TwoEntriesPerPrompt ==
    [][/\ submitted' # submitted =>
            /\ TurnBegins
            /\ calls' = calls + 1
            /\ GrewByOne(messages, messages') /\ Last(messages').role = "user"
            /\ GrewByOne(api_messages, api_messages') /\ Last(api_messages').role = "user"
       /\ TurnEnds =>
            /\ GrewByOne(messages, messages') /\ Last(messages').role = "assistant"
            /\ GrewByOne(api_messages, api_messages')
            /\ Last(api_messages').role = "assistant"
            /\ Last(messages).role = "user"
            /\ Last(api_messages).role = "user"
       /\ (pc = "streaming" /\ pc' = "streaming") =>
            UNCHANGED <<messages, api_messages>>
       /\ (pc = "idle" /\ pc' = "idle") =>
            /\ messages' \in {messages, <<>>}
            /\ api_messages' \in {api_messages, <<>>}
      ]_vars

\* two turns completed, the second one answered
C2_Witness ==
    /\ pc = "idle"
    /\ response.status = "ok"
    /\ Len(messages) = 4
    /\ messages[3].role = "user"
    /\ messages[4].role = "assistant"

\* C3: a turn that fails, in any of the categories, appends exactly one
\* assistant entry to the display history, holding the error message, and
\* exactly one to the API history, holding one text block with that message,
\* behind the user entries of the turn.
C3_FailureStillRecordsPair ==
    [][(TurnEnds /\ response'.status = "raised") =>
            /\ GrewByOne(messages, messages')
            /\ GrewByOne(api_messages, api_messages')
            /\ Last(messages).role = "user"
            /\ Last(api_messages).role = "user"
            /\ Last(messages') = [role |-> "assistant", content |-> ErrorReply(response'.exc)]
            /\ Last(api_messages').role = "assistant"
            /\ Len(Last(api_messages').content) = 1
            /\ Last(api_messages').content[1] =
                  [type |-> "text", text |-> Last(messages').content]
      ]_vars

\* a response with a tool block could not be rendered: the turn failed late
C3_Witness ==
    /\ pc = "idle"
    /\ response.status = "raised"
    /\ response.exc = NoneHasNoStrip
    /\ Last(messages).role = "assistant"
    /\ Last(api_messages).content = <<TextBlock(Last(messages).content)>>

\* the failure category of an exception, by its class
Category(exc) ==
    CASE exc.cls = "RateLimitError" -> "rate_limit"
      [] exc.cls \in {"InternalServerError", "APIStatusError"} -> "status"
      [] exc.cls \in {"APIConnectionError", "APIError"} -> "api"
      [] OTHER -> "other"

\* the message the error taxonomy gives a failure
Notice(exc) ==
    CASE Category(exc) = "rate_limit" ->
            "(!) Rate limit reached. Please wait a moment before trying again."
      [] Category(exc) = "status" ->
            "API error " \o ToString(exc.status_code) \o ": " \o exc.message
      [] Category(exc) = "api" -> "Unexpected API error: " \o exc.message
      [] OTHER -> "Unhandled error while calling the assistant: " \o exc.message

Failures == BackendErrors \cup {NoFinalResponse, UnsupportedMessage, NoneHasNoStrip}

\* C4: a failed turn shows the message of its category (a rate limit the
\* retry-later notice, never the "API error <status>" form), failures of
\* different categories never show the same message, and the failure does
\* not leave the turn: the session is idle on the chat page afterwards.
C4_DistinctMessages ==
    response.status = "raised" =>
        /\ pc = "idle"
        /\ screen = "chat"
        /\ response.exc \in Failures
        /\ Last(messages).content = Notice(response.exc)
        /\ Category(response.exc) = "rate_limit" =>
              Last(messages).content #
                  "API error " \o ToString(response.exc.status_code) \o ": "
                  \o response.exc.message
        /\ \A other \in Failures :
              Category(other) # Category(response.exc) =>
                  ErrorReply(other) # Last(messages).content

\* a rate-limited turn
C4_Witness ==
    /\ response.status = "raised"
    /\ response.exc = RateLimited
    /\ Last(messages).content = RATE_LIMIT_NOTICE

\* C5: "Clear conversation" empties both histories and the source summary
\* and keeps the selected persona; "Change persona" and "Back to Personas"
\* empty them too and set the selected persona to None.
C5_ResetKeepsPersona ==
    [][/\ Handles({"clear_conversation"}) =>
            /\ messages' = <<>>
            /\ api_messages' = <<>>
            /\ last_tool_summary' = ""
            /\ selected_persona_id' = selected_persona_id
       /\ Handles({"change_persona", "back_to_personas"}) =>
            /\ selected_persona_id # None
            /\ messages' = <<>>
            /\ api_messages' = <<>>
            /\ last_tool_summary' = ""
            /\ selected_persona_id' = None
      ]_vars

\* a conversation of two turns was cleared and its persona is still selected
C5_Witness ==
    /\ event.kind = "clear_conversation"
    /\ event.dropped = 4
    /\ selected_persona_id \in PersonaIds
    /\ messages = <<>>
    /\ api_messages = <<>>

\* C6: clicking "Interview <persona>" selects that persona and, in the same
\* step, leaves both histories and the source summary empty.
C6_SelectSetsAndClears ==
    [][Handles({"select_persona"}) =>
            /\ selected_persona_id' = event'.arg
            /\ selected_persona_id' \in PersonaIds
            /\ messages' = <<>>
            /\ api_messages' = <<>>
            /\ last_tool_summary' = ""
      ]_vars

\* the first persona was selected after prompts had been submitted to another
C6_Witness ==
    /\ event.kind = "select_persona"
    /\ event.arg = PERSONAS[1].id
    /\ selected_persona_id = PERSONAS[1].id
    /\ submitted > 0
    /\ messages = <<>>

\* seq continues short
Extends(short, seq) ==
    Len(short) <= Len(seq) /\ SubSeq(seq, 1, Len(short)) = short

\* C7: a good turn whose response has content stores exactly that content,
\* block for block, as the assistant's API entry; every backend call sends
\* the whole API history, the stored entries first; and entries leave the
\* history only when a reset or a persona change empties it.
C7_ResponseRoundTrip ==
    [][/\ (TurnEnds /\ response'.status = "ok" /\ response'.content # <<>>) =>
            api_messages' =
                Append(api_messages, [role |-> "assistant", content |-> response'.content])
       /\ TurnBegins =>
            /\ request'.conversation = api_messages'
            /\ GrewByOne(api_messages, request'.conversation)
       /\ ~Extends(api_messages, api_messages') =>
            /\ api_messages' = <<>>
            /\ Handles({"clear_conversation", "change_persona", "back_to_personas",
                        "select_persona"})
      ]_vars

\* a second prompt is on its way with the first turn's tool blocks before it
C7_Witness ==
    /\ pc = "streaming"
    /\ Len(request.conversation) = 3
    /\ request.conversation[2] =
          [role |-> "assistant", content |-> <<Thinking, SearchUse, SearchResult, CitedText>>]
    /\ request.conversation = api_messages

ToolBlockTypes == {"server_tool_use", "web_search_tool_result", "web_fetch_tool_result"}

HasToolBlocks(blocks) ==
    \E i \in DOMAIN blocks : Get(blocks[i], "type", None) \in ToolBlockTypes

\* C8: when a turn ends, last_tool_summary is the summary of the blocks of
\* the response this turn got, "" if they hold no tool block, and "" if the
\* turn got no response it could use; whatever it was before is gone.
C8_SummaryOfThisTurn ==
    [][TurnEnds =>
            /\ response'.status = "ok" =>
                  /\ last_tool_summary' = extract_tool_summary(response'.content)
                  /\ ~HasToolBlocks(response'.content) => last_tool_summary' = ""
            /\ response'.status = "raised" => last_tool_summary' = ""
            /\ response'.status \in {"ok", "raised"}
      ]_vars

\* the first turn searched the web, the second one failed: no summary is left
C8_Witness ==
    /\ pc = "idle"
    /\ Len(api_messages) = 4
    /\ extract_tool_summary(api_messages[2].content) # ""
    /\ response.status = "raised"
    /\ last_tool_summary = ""

\* C9: the backend is called once for each submitted prompt, in the step
\* that submits it; no step of the stream, no failure and no other
\* operation calls it again.
C9_OneCallPerPrompt ==
    [][(calls' # calls \/ submitted' # submitted) =>
            /\ TurnBegins
            /\ calls' = calls + 1
            /\ submitted' = submitted + 1
            /\ calls' = submitted'
      ]_vars

\* a rate-limited turn is over and the backend was called once
C9_Witness ==
    /\ pc = "idle"
    /\ response.status = "raised"
    /\ response.exc \in BackendErrors
    /\ submitted = 1
    /\ calls = 1

\* neither st.secrets nor the environment holds a key
NoCredential == secrets \in {"unavailable", "absent", ""} /\ environ = ""

\* C10: without a credential a script run stops on the key-missing message:
\* no persona is ever selected, no history entry exists, the backend is
\* never called.
C10_NoKeyNoSession ==
    NoCredential =>
        /\ screen \in {"none", "key_missing"}
        /\ selected_persona_id = None
        /\ messages = <<>>
        /\ api_messages = <<>>
        /\ calls = 0
        /\ submitted = 0
        /\ pc = "idle"

\* the script ran without a credential and stopped
C10_Witness ==
    /\ NoCredential
    /\ screen = "key_missing"
    /\ event.kind = "rerun"

-----------------------------------------------------------------------------
(* The streaming driver (src/app.py lines 406-422, 659-664).               *)

\* the stream of this turn ended and offered a way to the final message
FinalMessageReturned == stream # NoStream /\ stream.attrs \cap FinalAccessors # {}

C12_NoFinalMessageIsAnError ==
    [][TurnEnds =>
            /\ (stream' # NoStream /\ stream'.attrs \cap FinalAccessors = {}) =>
                  /\ response' = [status |-> "raised", exc |-> NoFinalResponse,
                                  content |-> <<>>]
                  /\ Last(messages').content =
                        "Unhandled error while calling the assistant: "
                        \o "Streaming interface missing a method to retrieve the final response."
                  /\ Last(api_messages').content = <<TextBlock(Last(messages').content)>>
            /\ response'.exc = NoFinalResponse =>
                  (stream' # NoStream /\ stream'.attrs \cap FinalAccessors = {})
      ]_vars

\* a stream without any accessor ended a turn
C12_Witness ==
    /\ pc = "idle"
    /\ stream # NoStream
    /\ stream.attrs = {}
    /\ response.exc = NoFinalResponse
    /\ Len(messages) = 2


-----------------------------------------------------------------------------
(* Calls of the pure helpers: the dataset retriever, the turn composer and *)
(* the renderer, each applied to inputs drawn from bounded sets.           *)

\* records of a dataset
MaxRecords == 3
\* limits passed to build_dataset_context, besides the default
MaxLimit == 2
\* blocks of a response handed to format_blocks_for_display
MaxBlocks == 2

\* the session variables, which a helper call leaves alone
session == <<secrets, environ, messages, api_messages, last_tool_summary,
             selected_persona_id, pending_prompt, suggested_hidden, screen,
             rerun_requested, pc, stream_buffer, chunks, event,
             internal_dataset, submitted, calls, request, response,
             text_stream, delivered, stream>>

\* rows of the workbook: the two of HONDA_DATASET, one with a category only
\* (its summary is empty), one whose remark repeats a word
DatasetRecords ==
    { HONDA_DATASET[1],
      HONDA_DATASET[2],
      [category |-> <<"EV">>],
      [source |-> <<"Dealer">>, remark |-> <<"EV", "EV", "charging">>] }

\* the sequences over a set of length at most n
SeqsUpTo(set, n) == UNION {[1..k -> set] : k \in 0..n}

Datasets == SeqsUpTo(DatasetRecords, MaxRecords)

\* prompts: without tokens, without a match, with one, with repeated words
Queries ==
    { <<>>,
      <<"Hello">>,
      <<"EV">>,
      <<"EV", "ev", "charging", "mileage">> }
    \cup ChatPrompts

Limits == 0..MaxLimit \cup {MAX_INTERNAL_CONTEXT_ROWS}

FetchOk ==
    [type |-> "web_fetch_tool_result",
     content |-> [py |-> "dict", type |-> "web_fetch_result", url |-> "http://y",
                  content |-> [py |-> "dict", title |-> "Charging report"]]]

\* the blocks a response is made of
Blocks ==
    { Thinking, [type |-> "redacted_thinking", data |-> "x"],
      TextBlock("Hello"), TextBlock(" Hello"), TextBlock("  "), TextBlock(""),
      [type |-> "text", text |-> None],
      CitedText, SearchUse, SearchResult, SearchError, FetchOk, FetchErrors,
      [type |-> "container_upload", data |-> "f1"] }

BlockSequences == SeqsUpTo(Blocks, MaxBlocks)

FetchUse ==
    [type |-> "server_tool_use", name |-> "web_fetch",
     input |-> [py |-> "dict", url |-> "http://y"]]

\* a search result item: a titled link
SearchItem(title) ==
    [py |-> "dict", type |-> "web_search_result", title |-> title,
     url |-> "http://" \o title]

\* a search that found six pages
SearchMany ==
    [type |-> "web_search_tool_result",
     content |-> PyList(<<SearchItem("r1"), SearchItem("r2"), SearchItem("r3"),
                          SearchItem("r4"), SearchItem("r5"), SearchItem("r6")>>)]

\* a fetched document without a title
FetchItem(url) == [py |-> "dict", type |-> "web_fetch_result", url |-> url]

\* a fetch result of four documents
FetchMany ==
    [type |-> "web_fetch_tool_result",
     content |-> PyList(<<FetchItem("http://d1"), FetchItem("http://d2"),
                          FetchItem("http://d3"), FetchItem("http://d4")>>)]

\* the blocks extract_tool_summary is given: tool uses and tool results, and
\* blocks of other kinds
ToolBlocks ==
    { Thinking, TextBlock("Hello"), SearchUse, FetchUse,
      [type |-> "server_tool_use", name |-> "web_search", input |-> [py |-> "dict"]],
      SearchResult, SearchMany, SearchError, FetchOk, FetchErrors, FetchMany }

ToolBlockSequences == SeqsUpTo(ToolBlocks, MaxBlocks)

HelperCalls ==
    { [fn |-> "build_dataset_context", query |-> query, dataset |-> dataset,
       limit |-> limit] : query \in Queries, dataset \in Datasets, limit \in Limits }
    \cup
    { [fn |-> "build_user_content", prompt |-> prompt, dataset |-> dataset,
       datetime_context |-> datetime_context] :
         prompt \in Queries,
         dataset \in SeqsUpTo(DatasetRecords, 1) \cup {HONDA_DATASET},
         datetime_context \in {""} \cup {TimeContext(clock) : clock \in Clocks} }
    \cup
    { [fn |-> "format_blocks_for_display", blocks |-> blocks] :
         blocks \in BlockSequences }
    \cup
    { [fn |-> "extract_tool_summary", blocks |-> blocks] :
         blocks \in ToolBlockSequences }

HelperInit ==
    /\ SessionInit
    /\ secrets = "absent"
    /\ call \in HelperCalls
    /\ result = NoResult

\* lines 110-139; top_records and the joined lines are kept with the value
Call_build_dataset_context ==
    /\ call.fn = "build_dataset_context"
    /\ result = NoResult
    /\ result' =
          [returned |-> TRUE,
           value |-> build_dataset_context(call.query, call.dataset, call.limit),
           lines |-> ContextLines(call.query, call.dataset, call.limit),
           records |-> IF call.dataset = <<>> THEN <<>>
                       ELSE TopRecords(call.query, call.dataset, call.limit)]
    /\ UNCHANGED <<call, session>>

\* lines 142-173
Call_build_user_content ==
    /\ call.fn = "build_user_content"
    /\ result = NoResult
    /\ result' =
          [returned |-> TRUE,
           value |-> build_user_content(call.prompt, call.dataset, call.datetime_context)]
    /\ UNCHANGED <<call, session>>

\* lines 229-286; line 253 raises on a text that is None
Call_format_blocks_for_display ==
    /\ call.fn = "format_blocks_for_display"
    /\ result = NoResult
    /\ result' =
          IF FormatRaises(call.blocks)
          THEN [returned |-> FALSE, raised |-> NoneHasNoStrip]
          ELSE [returned |-> TRUE, value |-> format_blocks_for_display(call.blocks)]
    /\ UNCHANGED <<call, session>>

\* lines 304-357; the lines are kept with the joined value
Call_extract_tool_summary ==
    /\ call.fn = "extract_tool_summary"
    /\ result = NoResult
    /\ result' =
          [returned |-> TRUE,
           value |-> extract_tool_summary(call.blocks),
           lines |-> ToolSummaryLines(call.blocks)]
    /\ UNCHANGED <<call, session>>

HelperNext ==
    \/ Call_build_dataset_context
    \/ Call_build_user_content
    \/ Call_format_blocks_for_display
    \/ Call_extract_tool_summary

HelperSpec == HelperInit /\ [][HelperNext]_vars


-----------------------------------------------------------------------------
(* The dataset retriever (src/app.py lines 110-139).                       *)

\* the lower-cased words of a query
QueryWords(query) == {Lower(query[k]) : k \in DOMAIN query}

\* the lower-cased words of a record's searchable fields
RecordWords(record) ==
    UNION { {Lower(Get(record, SEARCH_FIELDS[f], <<>>)[k]) :
                k \in DOMAIN Get(record, SEARCH_FIELDS[f], <<>>)} :
            f \in DOMAIN SEARCH_FIELDS }

\* the distinct words of the query that the record holds
Overlap(query, record) == Cardinality(QueryWords(query) \cap RecordWords(record))

\* build_dataset_context was called and has returned
Retrieved == call.fn = "build_dataset_context" /\ result.returned

\* the records of the dataset that come before record i when the dataset is
\* ordered by descending overlap, records of equal overlap in dataset order
Ahead(i) ==
    Cardinality({j \in DOMAIN call.dataset :
        \/ Overlap(call.query, call.dataset[j]) > Overlap(call.query, call.dataset[i])
        \/ /\ Overlap(call.query, call.dataset[j]) = Overlap(call.query, call.dataset[i])
           /\ j < i})

SummaryLine(record) == "- " \o format_record_summary(record)

HasLine(record) == \E i \in DOMAIN result.lines : result.lines[i] = SummaryLine(record)

\* C13 (as claimed): for a non-empty dataset, every record that shares a
\* token with the query has its summary line in the result, which is not
\* empty (stated for the limits above 0).
C13_MatchedRecordIncluded ==
    (Retrieved /\ call.limit > 0) =>
        \A i \in DOMAIN call.dataset :
            Overlap(call.query, call.dataset[i]) > 0 =>
                /\ result.value # ""
                /\ HasLine(call.dataset[i])

\* C13 (amended): a record that shares a token with the query, whose summary
\* is not empty and which is among the first limit records in the order of
\* descending score has its summary line in the result, which is not empty.
C13_TopMatchedRecordIncluded ==
    Retrieved =>
        /\ result.value = Join(result.lines, "\n")
        /\ \A i \in DOMAIN call.dataset :
              (/\ Overlap(call.query, call.dataset[i]) > 0
               /\ format_record_summary(call.dataset[i]) # ""
               /\ Ahead(i) < call.limit) =>
                    /\ result.value # ""
                    /\ HasLine(call.dataset[i])

\* the best match is the second record, and only it fits the limit
C13_Witness ==
    /\ Retrieved
    /\ call.query = <<"EV", "ev", "charging", "mileage">>
    /\ call.dataset = <<HONDA_DATASET[2], HONDA_DATASET[1]>>
    /\ call.limit = 1
    /\ result.lines = <<SummaryLine(HONDA_DATASET[1])>>

\* C14: whatever the query, the dataset and the limit (0 or more), the
\* result has at most limit summary lines.
C14_AtMostLimitSummaries ==
    Retrieved => Len(result.lines) <= call.limit

\* the query has words and none of them is in any record
NothingMatches ==
    /\ call.dataset # <<>>
    /\ QueryWords(call.query) # {}
    /\ \A i \in DOMAIN call.dataset : Overlap(call.query, call.dataset[i]) = 0

Candidates ==
    {i \in DOMAIN call.dataset :
        QueryWords(call.query) = {} \/ Overlap(call.query, call.dataset[i]) > 0}

\* the smaller of two numbers
Min(a, b) == IF a < b THEN a ELSE b

\* C17: the selected records are the first limit of the kept records in the
\* order of descending score (the number of distinct query tokens the record
\* holds), records of equal score in dataset order.
C17_TopLimitByScore ==
    Retrieved =>
        /\ Len(result.records) = Min(call.limit, Cardinality(Candidates))
        /\ \A k \in DOMAIN result.records :
              \E i \in Candidates :
                  Ahead(i) = k - 1 /\ result.records[k] = call.dataset[i]


-----------------------------------------------------------------------------
(* The turn composer (src/app.py lines 142-173).                           *)

\* build_user_content was called and has returned
Composed == call.fn = "build_user_content" /\ result.returned

\* C18: the blocks are, in this order, the time-context block if a time
\* context is given, the dataset-excerpt block if the retriever finds
\* something for the prompt, and the prompt block; the last block's text is
\* the prompt; a block that is left out is absent, not empty; without time
\* context and with an empty dataset the result is the prompt block alone.
C18_FixedBlockOrder ==
    Composed =>
        LET blocks == result.value
            context == build_dataset_context(call.prompt, call.dataset,
                                             MAX_INTERNAL_CONTEXT_ROWS)
            timed == IF call.datetime_context # "" THEN 1 ELSE 0
            excerpted == IF context # "" THEN 1 ELSE 0
        IN  /\ Len(blocks) = timed + excerpted + 1
            /\ \A i \in DOMAIN blocks :
                  /\ DOMAIN blocks[i] = {"type", "text"}
                  /\ blocks[i].type = "text"
            /\ Last(blocks).text = Str(call.prompt)
            /\ \A i \in 1..(Len(blocks) - 1) : blocks[i].text # ""
            /\ timed = 1 =>
                  blocks[1].text =
                      "User time context:\n" \o call.datetime_context
                      \o "\nTreat timestamps as the user's current local view."
            /\ excerpted = 1 =>
                  blocks[timed + 1].text =
                      "Internal dataset excerpts (Honda Data Sources workbook):\n"
                      \o context
                      \o "\nUse this structured context when forming your answer."
            /\ (timed = 0 /\ call.dataset = <<>>) =>
                  blocks = <<[type |-> "text", text |-> Str(call.prompt)]>>

\* no time context, and an excerpt of the workbook before the prompt
C18_Witness ==
    /\ Composed
    /\ call.datetime_context = ""
    /\ call.dataset = HONDA_DATASET
    /\ call.prompt \in ChatPrompts
    /\ Len(result.value) = 2
    /\ result.value[2].text = "What issues are EV users reporting"

-----------------------------------------------------------------------------
(* The renderer (src/app.py lines 229-286).                                *)

\* what each block of the model shows, as the program prints it
Shown(block) ==
    CASE block = TextBlock("Hello") -> "Hello"
      [] block = TextBlock(" Hello") -> "Hello"
      [] block = CitedText ->
            "EV owners often cite charging anxiety.\n\n**Citations:**\n"
            \o "- [Foo](http://x) -- anxiety"
      [] block = SearchError -> "(!) Web search error: max_uses_exceeded"
      [] block = FetchErrors ->
            "(!) Web fetch error: url_not_accessible\n\n"
            \o "(!) Web fetch error: too_many_requests"
      [] block = [type |-> "container_upload", data |-> "f1"] ->
            "_container_upload: {\"type\": \"container_upload\", \"data\": \"f1\"}_"
      [] OTHER -> ""

RECURSIVE ShownEach(_)
ShownEach(blocks) ==
    IF blocks = <<>> THEN <<>> ELSE <<Shown(Head(blocks))>> \o ShownEach(Tail(blocks))

\* the block is of a kind that shows nothing: reasoning, a tool use, a tool
\* result without an error, a text that is empty or white space
ShowsNothing(block) ==
    \/ block.type \in {"thinking", "redacted_thinking", "server_tool_use"}
    \/ block \in {SearchResult, FetchOk}
    \/ block \in {TextBlock(""), TextBlock("  ")}

\* format_blocks_for_display was called and has returned
Rendered == call.fn = "format_blocks_for_display" /\ result.returned

\* C19: the renderer never returns the empty string: for blocks that all
\* show nothing it returns the "no readable content" placeholder, otherwise
\* what the blocks show, in block order, joined by blank lines.
C19_NeverEmpty ==
    Rendered =>
        /\ result.value # ""
        /\ (\A i \in DOMAIN call.blocks : ShowsNothing(call.blocks[i])) =>
              result.value = "_The assistant returned no readable content._"
        /\ (\E i \in DOMAIN call.blocks : ~ShowsNothing(call.blocks[i])) =>
              result.value = Join(NonEmpty(ShownEach(call.blocks)), "\n\n")

\* a reasoning block alone gave the placeholder
C19_Witness ==
    /\ Rendered
    /\ call.blocks = <<Thinking>>
    /\ result.value = NO_READABLE_CONTENT

\* the response holds a failed search or a failed fetch
HasToolError(blocks) ==
    \E i \in DOMAIN blocks : blocks[i] \in {SearchError, FetchErrors}

\* C20: a response with a failed search or fetch in it is a good turn: the
\* reply shows one warning with the error code for the failed search and one
\* for each failed item of the fetch, nothing for the items and results
\* without an error, and the text blocks at their places; the API entry of
\* the turn holds the blocks of the response.
C20_ToolErrorIsNoFailure ==
    [][(TurnEnds /\ FinalMessageReturned' /\ HasToolError(stream'.message.content)) =>
            /\ response' = [status |-> "ok", exc |-> NoExc,
                            content |-> stream'.message.content]
            /\ Last(messages') =
                  [role |-> "assistant",
                   content |-> Join(NonEmpty(ShownEach(stream'.message.content)), "\n\n")]
            /\ Last(api_messages') =
                  [role |-> "assistant", content |-> stream'.message.content]
      ]_vars

\* a turn ended on a response with a failed search and a failed fetch
C20_Witness ==
    /\ pc = "idle"
    /\ response.status = "ok"
    /\ response.content = <<SearchError, TextBlock("Hello"), FetchErrors>>
    /\ Last(messages).content =
          "(!) Web search error: max_uses_exceeded\n\nHello\n\n"
          \o "(!) Web fetch error: url_not_accessible\n\n"
          \o "(!) Web fetch error: too_many_requests"
    /\ Last(api_messages).content = response.content


-----------------------------------------------------------------------------
(* The source summary (src/app.py lines 304-357).                          *)

\* extract_tool_summary was called and has returned
Summarized == call.fn = "extract_tool_summary" /\ result.returned

\* the entries a block offers to each section, before any cap
ActionsIn(block) ==
    IF block \in {SearchUse, FetchUse} THEN 1 ELSE 0

HitsIn(block) ==
    CASE block = SearchResult -> 1
      [] block = SearchMany -> 6
      [] OTHER -> 0

DocsIn(block) ==
    CASE block = FetchOk -> 1
      [] block = FetchErrors -> 3
      [] block = FetchMany -> 4
      [] OTHER -> 0

RECURSIVE SumOver(_, _)
\* the sum of counts[i] over the indexes of the set
SumOver(counts, indexes) ==
    IF indexes = {} THEN 0
    ELSE LET i == CHOOSE i \in indexes : TRUE
         IN  counts[i] + SumOver(counts, indexes \ {i})

\* C21: the summary's lines are the "Research actions" section, then the
\* "Search hits" section, then the "Fetched docs" section, in this order for
\* every order of the blocks; a section is its header followed by its
\* entries, and is absent, header included, when it has no entry; a search
\* result block gives at most 5 entries and a fetch result block at most 3;
\* blocks without any tool block give the empty string.
C21_SectionsInOrder ==
    Summarized =>
        LET blocks == call.blocks
            lines == result.lines
            actions == SumOver([i \in DOMAIN blocks |-> ActionsIn(blocks[i])], DOMAIN blocks)
            hits == SumOver([i \in DOMAIN blocks |->
                                Min(HitsIn(blocks[i]), SEARCH_RESULTS_PER_BLOCK)],
                            DOMAIN blocks)
            docs == SumOver([i \in DOMAIN blocks |->
                                Min(DocsIn(blocks[i]), FETCH_RESULTS_PER_BLOCK)],
                            DOMAIN blocks)
            size(n) == IF n > 0 THEN n + 1 ELSE 0
            At(header) == {i \in DOMAIN lines : lines[i] = header}
        IN  /\ result.value = Join(lines, "\n")
            /\ Len(lines) = size(actions) + size(hits) + size(docs)
            /\ At("**Research actions**") = IF actions > 0 THEN {1} ELSE {}
            /\ At("**Search hits**") = IF hits > 0 THEN {size(actions) + 1} ELSE {}
            /\ At("**Fetched docs**") =
                  IF docs > 0 THEN {size(actions) + size(hits) + 1} ELSE {}
            /\ \A i \in DOMAIN lines :
                  lines[i] \notin {"- [r6](http://r6)", "- [Fetched document](http://d4)"}
            /\ (\A i \in DOMAIN blocks : blocks[i].type \notin ToolBlockTypes) =>
                  result.value = ""

\* four fetched documents came before six search hits: five hits are listed
\* first, then three documents
C21_Witness ==
    /\ Summarized
    /\ call.blocks = <<FetchMany, SearchMany>>
    /\ Len(result.lines) = 10
    /\ result.lines[1] = "**Search hits**"
    /\ result.lines[6] = "- [r5](http://r5)"
    /\ result.lines[7] = "**Fetched docs**"
    /\ result.lines[10] = "- [Fetched document](http://d3)"

-----------------------------------------------------------------------------
(* The two histories, entry by entry (src/app.py lines 628-631, 703-713).  *)

\* C22: the two histories have the same indexes; at every index the display
\* entry and the API entry have the same role, "user" at the odd indexes and
\* "assistant" at the even ones; and the display content of a user entry is
\* the text of the last content block of the API entry at its index.
C22_HistoriesAgree ==
    /\ DOMAIN messages = DOMAIN api_messages
    /\ \A i \in DOMAIN messages \cap DOMAIN api_messages :
          /\ messages[i].role = api_messages[i].role
          /\ messages[i].role = IF i % 2 = 1 THEN "user" ELSE "assistant"
          /\ messages[i].role = "user" =>
                /\ api_messages[i].content # <<>>
                /\ Last(api_messages[i].content).text = messages[i].content

\* the second prompt is on record, behind its time context and its excerpt
C22_Witness ==
    /\ Len(messages) = 4
    /\ messages[3] = [role |-> "user", content |-> "What issues are EV users reporting"]
    /\ Len(api_messages[3].content) = 3
    /\ api_messages[3].content[3] = TextBlock("What issues are EV users reporting")
    /\ api_messages[4].role = "assistant"

-----------------------------------------------------------------------------
(* Personas and the histories (src/app.py lines 584-600, 655-674).         *)

\* C23: a backend call is made with a persona selected, with the system
\* prompt rendered from that persona followed by the guardrails, and with the
\* API history as its conversation; the histories grow only in the steps of
\* a turn, which leave the selected persona alone, and every step that
\* changes the selected persona leaves both histories empty: so a
\* conversation holds only turns of the persona it is sent under, recorded
\* since that persona was selected or the conversation was reset; and the
\* histories are empty unless a persona is selected.
C23_PersonaOwnsHistory ==
    [][/\ TurnBegins =>
            /\ selected_persona_id \in PersonaIds
            /\ request'.persona = selected_persona_id
            /\ request'.system =
                  build_persona_prompt(FindPersona(selected_persona_id))
                  \o "\n\n" \o ROLEPLAY_GUARDRAILS
            /\ \A other \in PersonaIds \ {selected_persona_id} :
                  request'.system #
                      build_persona_prompt(FindPersona(other))
                      \o "\n\n" \o ROLEPLAY_GUARDRAILS
            /\ request'.conversation = api_messages'
       /\ (Len(messages') > Len(messages) \/ Len(api_messages') > Len(api_messages)) =>
            /\ TurnBegins \/ TurnEnds
            /\ selected_persona_id' = selected_persona_id
       /\ selected_persona_id' # selected_persona_id =>
            /\ messages' = <<>>
            /\ api_messages' = <<>>
       /\ (messages' # <<>> \/ api_messages' # <<>>) =>
            selected_persona_id' \in PersonaIds
      ]_vars

\* the second prompt of the session goes to the second persona, after a turn
\* that was not kept, as the whole conversation
C23_Witness ==
    /\ pc = "streaming"
    /\ submitted = 2
    /\ selected_persona_id = PERSONAS[2].id
    /\ request.persona = PERSONAS[2].id
    /\ request.system =
          build_persona_prompt(PERSONAS[2]) \o "\n\n" \o ROLEPLAY_GUARDRAILS
    /\ Len(request.conversation) = 1

-----------------------------------------------------------------------------
(* What a turn stores (src/app.py lines 684-714).                          *)

\* C24: no assistant entry of the display history has the empty string as
\* its content, and none has the text "The assistant returned an empty
\* response."; no assistant entry of the API history has an empty block
\* sequence as its content: a response without content is stored as one text
\* block holding the renderer's placeholder.
C24_AssistantEntriesNonEmpty ==
    /\ \A i \in DOMAIN messages :
          messages[i].role = "assistant" =>
              /\ messages[i].content # ""
              /\ messages[i].content # "_The assistant returned an empty response._"
    /\ \A i \in DOMAIN api_messages :
          api_messages[i].role = "assistant" =>
              /\ api_messages[i].content # <<>>
              /\ api_messages[i].content #
                    <<TextBlock("_The assistant returned an empty response._")>>
    /\ (pc = "idle" /\ response.status = "ok" /\ response.content = <<>>) =>
          /\ Last(messages).content = "_The assistant returned no readable content._"
          /\ Last(api_messages).content =
                <<TextBlock("_The assistant returned no readable content._")>>

\* a response without content ended a turn
C24_Witness ==
    /\ pc = "idle"
    /\ response.status = "ok"
    /\ response.content = <<>>
    /\ Last(messages).role = "assistant"
    /\ Last(api_messages) =
          [role |-> "assistant",
           content |-> <<TextBlock("_The assistant returned no readable content._")>>]

\* C25: a turn that fails after text fragments were delivered to the
\* callback stores none of that text: the turn's assistant entry is the
\* error message alone in the display history and one text block with the
\* error message alone in the API history, nothing else of the histories
\* changes, and last_tool_summary is empty.
C25_StreamedTextIsDropped ==
    [][(TurnEnds /\ delivered # <<>> /\ response'.status = "raised") =>
            /\ stream_buffer' = Join(delivered, "")
            /\ stream_buffer' # ""
            /\ messages' =
                  Append(messages,
                         [role |-> "assistant", content |-> Notice(response'.exc)])
            /\ api_messages' =
                  Append(api_messages,
                         [role |-> "assistant",
                          content |-> <<TextBlock(Notice(response'.exc))>>])
            /\ last_tool_summary' = ""
      ]_vars

\* "Hello" was streamed, then the stream had no way to its final message
C25_Witness ==
    /\ pc = "idle"
    /\ stream_buffer = "Hello"
    /\ response.status = "raised"
    /\ response.exc = NoFinalResponse
    /\ Last(messages).content =
          "Unhandled error while calling the assistant: "
          \o "Streaming interface missing a method to retrieve the final response."
    /\ Last(api_messages).content = <<TextBlock(Last(messages).content)>>
    /\ last_tool_summary = ""

-----------------------------------------------------------------------------
(* Quick prompts and interview starters (src/app.py lines 621-633,         *)
(* 717-758).                                                               *)

\* C26: a prompt is queued only by a click on an interview starter or on a
\* suggested follow-up, while a persona is selected and nothing is queued;
\* the one step a session takes with a queued prompt is the script run that
\* reads it: the run removes it from the session state, submits it (one
\* user entry with the prompt in each history, one backend call, which ends
\* in one assistant entry) under the persona it was queued under, so no
\* later run finds it again.
C26_QuickPromptOnce ==
    [][/\ (pending_prompt' # pending_prompt /\ pending_prompt' # <<>>) =>
            /\ Handles({"starter", "followup"})
            /\ pending_prompt = <<>>
            /\ selected_persona_id \in PersonaIds
            /\ UNCHANGED <<selected_persona_id, messages, api_messages, submitted, calls>>
       /\ pending_prompt # <<>> =>
            /\ TurnBegins
            /\ pending_prompt' = <<>>
            /\ submitted' = submitted + 1
            /\ calls' = calls + 1
            /\ messages' =
                  Append(messages, [role |-> "user", content |-> Str(pending_prompt)])
            /\ GrewByOne(api_messages, api_messages')
            /\ Last(Last(api_messages').content).text = Str(pending_prompt)
            /\ selected_persona_id' = selected_persona_id
            /\ request'.persona = selected_persona_id
            /\ request'.system =
                  build_persona_prompt(FindPersona(selected_persona_id))
                  \o "\n\n" \o ROLEPLAY_GUARDRAILS
       /\ (TurnEnds /\ event.kind = "rerun") =>
            /\ pending_prompt' = <<>>
            /\ GrewByOne(messages, messages')
            /\ Last(messages').role = "assistant"
      ]_vars

\* the first persona's interview starter was clicked, submitted by the run
\* the click started, and answered
C26_Witness ==
    /\ pc = "idle"
    /\ event.kind = "rerun"
    /\ response.status = "ok"
    /\ pending_prompt = <<>>
    /\ selected_persona_id = PERSONAS[1].id
    /\ Len(messages) = 2
    /\ messages[1] =
          [role |-> "user",
           content |-> Str(get_suggested_prompts(PERSONAS[1].id)[1])]
    /\ messages[2].role = "assistant"
    /\ submitted = 1

\* line 719: the script run renders the interview starters
StartersOffered ==
    /\ FindPersona(selected_persona_id).id # None
    /\ ~suggested_hidden
    /\ messages = <<>>

\* C27: on the chat page of a selected persona, with an empty display
\* history and no prompt queued or being answered, the interview starters of
\* that persona are offered, whatever happened in the session before.
C27_StartersWhenEmpty ==
    (/\ Interactive("chat")
     /\ selected_persona_id \in PersonaIds
     /\ messages = <<>>
     /\ pending_prompt = <<>>)
        => /\ StartersOffered
           /\ SuggestedQuestions # {}

=============================================================================
